---- MODULE Spec2Model ----
(***************************************************************************)
(* Model of python/utils/run_benchmarks.py: the benchmark registry         *)
(* (getBenchmarks), the resolution of the --algo names, the timed load and *)
(* build steps, the algorithm loop and the report section of __main__.     *)
(***************************************************************************)
EXTENDS Integers, Sequences, FiniteSets, TLC

(***************************************************************************)
(* Bounds of the model.                                                    *)
(***************************************************************************)
\* Longest list of --algo occurrences on the command line.
MaxAlgoArgs == 2
\* Number of registry callables (the first ones, in registry order) whose
\* outcome varies between runs: each may raise, or take a short or a long time.
\* The other callables always succeed with the short time.
MaxVarying == 2

(***************************************************************************)
(* Python values that end up in the result log: a str (the text of an      *)
(* exception), a float (an elapsed time) or None.                          *)
(***************************************************************************)
PyStr(s) == [type |-> "str", str |-> s, num |-> 0]

PyFloat(n) == [type |-> "float", str |-> "", num |-> n]

PyNone == [type |-> "NoneType", str |-> "", num |-> 0]

\* isinstance(value, str)
IsInstanceStr(v) == v.type = "str"

(***************************************************************************)
(* Command-line inputs.                                                    *)
(***************************************************************************)
\* The names a user passes to --algo in this model: two registry names (one
\* among the varying callables, one not, given here against registry order),
\* the sentinel and a name that is in no registry.
AlgoArgUniverse == {"degrees", "bfs", "ALL", "nonexistent"}

\* args.algo: action="append" gives None (modelled as the empty sequence, both
\* are falsy) or the list of the names in command-line order.
AlgoArgLists == UNION {[1..n -> AlgoArgUniverse] : n \in 0..MaxAlgoArgs}

\* args.file, as its "."-separated parts
FileNames == {<<"graph", "mtx">>, <<"edges", "csv">>, <<"graph", "json">>}

\* An optional str argument (default None): absent, given empty, given a path.
OptionalDirs == {[given |-> FALSE, path |-> ""],
                 [given |-> TRUE, path |-> ""],
                 [given |-> TRUE, path |-> "dir"]}

\* Python truth value of an optional str argument
Truthy(opt) == opt.given /\ opt.path # ""

VARIABLES
    pc,                 \* position in __main__
    args_file,          \* args.file
    args_algo,          \* args.algo
    args_update_results_dir,
    args_update_asv_dir,
    perfData,           \* the result log: sequence of <<name, value>>
    algosToRun,         \* the resolved names
    edgelist_gdf,       \* "None" or "gdf"
    G,                  \* "None" or "graph"
    benches,            \* the real registry: << >> until built, then its names
    algoIdx,            \* position of the for loop in algosToRun
    invoked,            \* history: names of the Benchmarks whose run() was called
    loaderCalls,        \* history: number of calls of loadDataFile
    asvCalls,           \* history: the payloads handed to cugraph_update_asv
    fatal               \* "" or the exception that ended the process

vars == <<pc, args_file, args_algo, args_update_results_dir, args_update_asv_dir,
          perfData, algosToRun, edgelist_gdf, G, benches, algoIdx, invoked,
          loaderCalls, asvCalls, fatal>>

argVars == <<args_file, args_algo, args_update_results_dir, args_update_asv_dir>>

(***************************************************************************)
(* getBenchmarks                                                           *)
(***************************************************************************)
\* The names of the list `benches` of getBenchmarks, in list order.
BenchmarkList ==
    << "pagerank", "bfs", "sssp", "jaccard", "louvain",
       "weakly_connected_components", "overlap", "triangles",
       "spectralBalancedCutClustering",
       "spectralModularityMaximizationClustering",
       "renumber", "view_adj_list", "degree", "degrees" >>

RECURSIVE DictKeys(_)
\* keys of dict([(b.name, b) for b in benches]): first occurrences, in order
DictKeys(names) ==
    IF names = << >> THEN << >>
    ELSE LET front == DictKeys(SubSeq(names, 1, Len(names) - 1))
             last == names[Len(names)]
         IN IF \E i \in 1..Len(front) : front[i] = last
            THEN front
            ELSE Append(front, last)

\* getBenchmarks(G, edgelist_gdf, args): the keys of the returned dict; they do
\* not depend on the arguments.
getBenchmarks == DictKeys(BenchmarkList)

\* getAllPossibleAlgos(): list(getBenchmarks(nop, nop, nop).keys())
getAllPossibleAlgos == getBenchmarks

Range(s) == {s[i] : i \in 1..Len(s)}

(***************************************************************************)
(* Resolution of the requested names (__main__, algosToRun)                *)
(***************************************************************************)
\* Mutation of ResolveAlgosToRun: the requested names are passed through
\* set(), which drops repetitions and puts them in registry order.
ResolveAlgosToRun_ViaSet(algo) ==
    LET allPossibleAlgos == getAllPossibleAlgos
    IN IF algo # << >> /\ "ALL" \notin Range(algo)
       THEN IF Range(algo) \ (Range(allPossibleAlgos) \cup {"ALL"}) # {}
            THEN [error |-> "ValueError: bad algo(s)", algos |-> << >>]
            ELSE [error |-> "",
                  algos |-> SelectSeq(allPossibleAlgos,
                                      LAMBDA a : a \in Range(algo))]
       ELSE [error |-> "", algos |-> allPossibleAlgos]

\* `algo` is args.algo. The result is the exception raised ("" when none) and
\* the value of algosToRun.
ResolveAlgosToRun(algo) ==
    LET allPossibleAlgos == getAllPossibleAlgos
    IN IF algo # << >> /\ "ALL" \notin Range(algo)
       THEN LET allowedAlgoNames == allPossibleAlgos \o <<"ALL">>
            IN IF Range(algo) \ Range(allowedAlgoNames) # {}
               THEN [error |-> "ValueError: bad algo(s)", algos |-> << >>]
               ELSE [error |-> "", algos |-> algo]
       ELSE [error |-> "", algos |-> allPossibleAlgos]

(***************************************************************************)
(* What the callables do when run                                          *)
(***************************************************************************)
Returned(t) == [raised |-> FALSE, err |-> "", time |-> t]

Raised(e) == [raised |-> TRUE, err |-> e, time |-> 0]

\* file_name.split(".")[-1]
FileType(file_name) == file_name[Len(file_name)]

\* loadDataFile(file_name, csv_delimiter): a reader is called for mtx and csv
\* (it returns the edge list, or raises, for instance on a missing file); any
\* other extension raises ValueError.
loadDataFile(file_name) ==
    IF FileType(file_name) \in {"mtx", "csv"}
    THEN {Returned(5), Raised("No such file or directory")}
    ELSE {Raised("bad file type")}

\* createGraph(edgelist_gdf, auto_csr): subscripting None raises TypeError; on
\* an edge list the cugraph calls return the graph or raise.
createGraph(gdf) ==
    IF gdf = "None"
    THEN {Raised("'NoneType' object is not subscriptable")}
    ELSE {Returned(4), Raised("cannot create graph")}

\* The callables whose outcome varies between runs
Varying == {getBenchmarks[i] : i \in 1..MaxVarying}

\* benches[name].func(*args)
AlgoOutcomes(name) ==
    IF name \in Varying
    THEN {Returned(1), Returned(2), Raised("algo failed")}
    ELSE {Returned(1)}

(***************************************************************************)
(* Benchmark.run, with the logExeTime wrapper                              *)
(***************************************************************************)
\* The value logged for a run: the elapsed time, or str(e) of the exception
LoggedValue(outcome) ==
    IF outcome.raised THEN PyStr(outcome.err) ELSE PyFloat(outcome.time)

\* perfData after Benchmark(name, func).run(): one (name, value) is appended,
\* the exception, if any, is caught.
LogAfterRun(log, name, outcome) == Append(log, <<name, LoggedValue(outcome)>>)

\* The value run() returns: None when the callable raised
RunResult(outcome, value) == IF outcome.raised THEN "None" ELSE value

\* The history of the run() calls
InvokedAfterRun(name, outcome) ==
    Append(invoked, [name |-> name, raised |-> outcome.raised])

(***************************************************************************)
(* __main__                                                                *)
(***************************************************************************)
Init ==
    /\ pc = "resolve"
    /\ args_file \in FileNames
    /\ args_algo \in AlgoArgLists
    /\ args_update_results_dir \in OptionalDirs
    /\ args_update_asv_dir \in OptionalDirs
    /\ perfData = << >>
    /\ algosToRun = << >>
    /\ edgelist_gdf = "None"
    /\ G = "None"
    /\ benches = << >>
    /\ algoIdx = 1
    /\ invoked = << >>
    /\ loaderCalls = 0
    /\ asvCalls = << >>
    /\ fatal = ""

\* lines 178-194: set algosToRun, or raise ValueError
ResolveAlgos ==
    /\ pc = "resolve"
    /\ LET r == ResolveAlgosToRun(args_algo)
       IN /\ algosToRun' = r.algos
          /\ fatal' = r.error
          /\ pc' = IF r.error # "" THEN "fatal" ELSE "load"
    /\ UNCHANGED <<argVars, perfData, edgelist_gdf, G, benches, algoIdx,
                   invoked, loaderCalls, asvCalls>>

\* Mutation of LoadData: loadDataFile is called directly instead of through a
\* Benchmark, so the load leaves no record.
LoadData_Unwrapped ==
    /\ pc = "load"
    /\ \E outcome \in loadDataFile(args_file) :
          /\ ~outcome.raised
          /\ edgelist_gdf' = "gdf"
    /\ loaderCalls' = loaderCalls + 1
    /\ pc' = "build"
    /\ UNCHANGED <<argVars, perfData, invoked, algosToRun, G, benches, algoIdx,
                   asvCalls, fatal>>

\* line 198: edgelist_gdf = Benchmark(loadDataFile, ...).run()
LoadData ==
    /\ pc = "load"
    /\ \E outcome \in loadDataFile(args_file) :
          /\ perfData' = LogAfterRun(perfData, "loadDataFile", outcome)
          /\ invoked' = InvokedAfterRun("loadDataFile", outcome)
          /\ edgelist_gdf' = RunResult(outcome, "gdf")
    /\ loaderCalls' = loaderCalls + 1
    /\ pc' = "build"
    /\ UNCHANGED <<argVars, algosToRun, G, benches, algoIdx, asvCalls, fatal>>

\* line 199: G = Benchmark(createGraph, ...).run()
BuildGraph ==
    /\ pc = "build"
    /\ \E outcome \in createGraph(edgelist_gdf) :
          /\ perfData' = LogAfterRun(perfData, "createGraph", outcome)
          /\ invoked' = InvokedAfterRun("createGraph", outcome)
          /\ G' = RunResult(outcome, "graph")
    /\ pc' = "check"
    /\ UNCHANGED <<argVars, algosToRun, edgelist_gdf, benches, algoIdx,
                   loaderCalls, asvCalls, fatal>>

\* Mutation of CheckGraph: the `if G is None` test is missing.
CheckGraph_NoNullCheck ==
    /\ pc = "check"
    /\ benches' = getBenchmarks
    /\ pc' = "loop"
    /\ UNCHANGED <<argVars, perfData, algosToRun, edgelist_gdf, G, algoIdx,
                   invoked, loaderCalls, asvCalls, fatal>>

\* lines 201-207: raise RuntimeError on a None graph, else build the registry
CheckGraph ==
    /\ pc = "check"
    /\ IF G = "None"
       THEN /\ fatal' = "RuntimeError: could not create graph!"
            /\ pc' = "fatal"
            /\ UNCHANGED benches
       ELSE /\ benches' = getBenchmarks
            /\ pc' = "loop"
            /\ UNCHANGED fatal
    /\ UNCHANGED <<argVars, perfData, algosToRun, edgelist_gdf, G, algoIdx,
                   invoked, loaderCalls, asvCalls>>

\* Mutation of RunAlgo: the callable is called directly, so its exception
\* leaves no record and ends the process.
RunAlgo_Propagate ==
    /\ pc = "loop"
    /\ algoIdx <= Len(algosToRun)
    /\ LET algo == algosToRun[algoIdx]
       IN /\ algo \in Range(benches)
          /\ \E outcome \in AlgoOutcomes(algo) :
                /\ invoked' = InvokedAfterRun(algo, outcome)
                /\ IF outcome.raised
                   THEN /\ fatal' = outcome.err
                        /\ pc' = "fatal"
                        /\ UNCHANGED perfData
                   ELSE /\ perfData' = LogAfterRun(perfData, algo, outcome)
                        /\ pc' = IF algoIdx = Len(algosToRun)
                                 THEN "reports" ELSE "loop"
                        /\ UNCHANGED fatal
    /\ algoIdx' = algoIdx + 1
    /\ UNCHANGED <<argVars, algosToRun, edgelist_gdf, G, benches, loaderCalls,
                   asvCalls>>

\* Mutation of RunAlgo: each algorithm logs to a list of its own, which
\* replaces the log.
RunAlgo_FreshLog ==
    /\ pc = "loop"
    /\ algoIdx <= Len(algosToRun)
    /\ LET algo == algosToRun[algoIdx]
       IN /\ algo \in Range(benches)
          /\ \E outcome \in AlgoOutcomes(algo) :
                /\ perfData' = LogAfterRun(<< >>, algo, outcome)
                /\ invoked' = InvokedAfterRun(algo, outcome)
    /\ algoIdx' = algoIdx + 1
    /\ pc' = IF algoIdx = Len(algosToRun) THEN "reports" ELSE "loop"
    /\ UNCHANGED <<argVars, algosToRun, edgelist_gdf, G, benches, loaderCalls,
                   asvCalls, fatal>>

\* lines 209-210: one iteration of `for algo in algosToRun: benches[algo].run()`
RunAlgo ==
    /\ pc = "loop"
    /\ algoIdx <= Len(algosToRun)
    /\ LET algo == algosToRun[algoIdx]
       IN /\ algo \in Range(benches)
          /\ \E outcome \in AlgoOutcomes(algo) :
                /\ perfData' = LogAfterRun(perfData, algo, outcome)
                /\ invoked' = InvokedAfterRun(algo, outcome)
    /\ algoIdx' = algoIdx + 1
    /\ pc' = IF algoIdx = Len(algosToRun) THEN "reports" ELSE "loop"
    /\ UNCHANGED <<argVars, algosToRun, edgelist_gdf, G, benches, loaderCalls,
                   asvCalls, fatal>>

\* Mutation of AsvPerfData: the test is inverted, the error strings are kept
\* and the elapsed times become None.
AsvPerfData_Inverted(log) ==
    [i \in 1..Len(log) |->
        <<log[i][1], IF IsInstanceStr(log[i][2]) THEN log[i][2] ELSE PyNone>>]

\* lines 218-219: the (name, value) pairs with the str values replaced by None
AsvPerfData(log) ==
    [i \in 1..Len(log) |->
        <<log[i][1], IF ~IsInstanceStr(log[i][2]) THEN log[i][2] ELSE PyNone>>]

\* lines 213-214: if args.update_results_dir: raise NotImplementedError
UpdateResults ==
    /\ pc = "reports"
    /\ IF Truthy(args_update_results_dir)
       THEN /\ fatal' = "NotImplementedError"
            /\ pc' = "fatal"
       ELSE /\ pc' = "asv"
            /\ UNCHANGED fatal
    /\ UNCHANGED <<argVars, perfData, algosToRun, edgelist_gdf, G, benches,
                   algoIdx, invoked, loaderCalls, asvCalls>>

\* Mutation of UpdateASV: the test reads args.update_results_dir.
UpdateASV_WrongFlag ==
    /\ pc = "asv"
    /\ IF Truthy(args_update_results_dir)
       THEN asvCalls' = Append(asvCalls, AsvPerfData(perfData))
       ELSE UNCHANGED asvCalls
    /\ pc' = "done"
    /\ UNCHANGED <<argVars, perfData, algosToRun, edgelist_gdf, G, benches,
                   algoIdx, invoked, loaderCalls, fatal>>

\* lines 216-230: if args.update_asv_dir: convert the log and call the sink
UpdateASV ==
    /\ pc = "asv"
    /\ IF Truthy(args_update_asv_dir)
       THEN asvCalls' = Append(asvCalls, AsvPerfData(perfData))
       ELSE UNCHANGED asvCalls
    /\ pc' = "done"
    /\ UNCHANGED <<argVars, perfData, algosToRun, edgelist_gdf, G, benches,
                   algoIdx, invoked, loaderCalls, fatal>>

Next ==
    \/ ResolveAlgos
    \/ LoadData
    \/ BuildGraph
    \/ CheckGraph
    \/ RunAlgo
    \/ UpdateResults
    \/ UpdateASV

Spec == Init /\ [][Next]_vars

(***************************************************************************)
(* Vocabulary of the properties                                            *)
(***************************************************************************)
\* The names of the records of a log, in order
LogNames(log) == [i \in 1..Len(log) |-> log[i][1]]

\* The names of the run() calls so far, in order
InvokedNames == [i \in 1..Len(invoked) |-> invoked[i].name]

\* s is a prefix of t
IsPrefix(s, t) == Len(s) <= Len(t) /\ SubSeq(t, 1, Len(s)) = s

\* Number of run() calls on the registry Benchmark `name`
TimesRun(name) ==
    Cardinality({i \in 3..Len(invoked) : invoked[i].name = name})

\* The algorithm loop was left by its end
LoopFinished ==
    \/ pc \in {"reports", "asv", "done"}
    \/ pc = "fatal" /\ fatal = "NotImplementedError"

\* A requested name that is neither a registry name nor the sentinel
HasUnknownName(algo) ==
    \E i \in 1..Len(algo) : algo[i] \notin Range(BenchmarkList) \cup {"ALL"}

(***************************************************************************)
(* C1: if the --algo list holds a name outside the registry's names        *)
(* (whatever else it holds, "ALL" included), resolution ends in the fatal  *)
(* configuration error, the loader is never called and the log is empty.   *)
(***************************************************************************)
C1_UnknownNameIsFatalBeforeLoad ==
    (HasUnknownName(args_algo) /\ pc # "resolve")
        => /\ pc = "fatal"
           /\ fatal = "ValueError: bad algo(s)"
           /\ loaderCalls = 0
           /\ perfData = << >>

(***************************************************************************)
(* C2: when the callable of an algorithm benchmark raises, a record with   *)
(* its name and the error string (no elapsed time) is in the log at its    *)
(* place, the run is not aborted, and the later benchmarks of the resolved *)
(* set are executed: while some are left the loop is about to run the next *)
(* one, and a run never ends with one of them not executed.                *)
(***************************************************************************)
C2_FailureIsolated ==
    LET n == Len(invoked) - 2
    IN n >= 1 =>
        /\ n <= Len(algosToRun)
        /\ \A k \in 1..n :
              /\ invoked[2 + k].name = algosToRun[k]
              /\ invoked[2 + k].raised =>
                    /\ Len(perfData) >= 2 + k
                    /\ perfData[2 + k][1] = algosToRun[k]
                    /\ IsInstanceStr(perfData[2 + k][2])
                    /\ perfData[2 + k][2].str # ""
        /\ IF n < Len(algosToRun)
           THEN pc = "loop" /\ algoIdx = n + 1 /\ fatal = ""
           ELSE LoopFinished

\* A finished run in which a benchmark raised and a later one was executed.
C2_Witness ==
    /\ pc = "done"
    /\ \E k \in 3..Len(invoked) :
          /\ invoked[k].raised
          /\ k < Len(invoked)
          /\ ~invoked[k + 1].raised
          /\ perfData[k + 1][2].type = "float"

(***************************************************************************)
(* C3: with only registry names requested and no "ALL", the resolved names *)
(* are the requested list in the requested order; with "ALL" requested or  *)
(* no --algo, they are the registry's names in insertion order. Only       *)
(* requested names are run, and at the end of the loop every requested     *)
(* name has been run.                                                      *)
(***************************************************************************)
C3_ResolvedSet ==
    LET wantsAll == args_algo = << >> \/ "ALL" \in Range(args_algo)
        requested == IF wantsAll THEN Range(BenchmarkList) ELSE Range(args_algo)
    IN (pc # "resolve" /\ (wantsAll \/ ~HasUnknownName(args_algo))) =>
        /\ fatal # "ValueError: bad algo(s)"
        /\ algosToRun = IF wantsAll THEN BenchmarkList ELSE args_algo
        /\ \A i \in 3..Len(invoked) : invoked[i].name \in requested
        /\ LoopFinished =>
              /\ \A a \in requested : TimesRun(a) >= 1
              /\ [k \in 1..(Len(invoked) - 2) |-> invoked[2 + k].name]
                    = (IF wantsAll THEN BenchmarkList ELSE args_algo)

\* A finished run of two names requested against the registry's order.
C3_Witness ==
    /\ pc = "done"
    /\ args_algo = <<"degrees", "bfs">>
    /\ InvokedNames = <<"loadDataFile", "createGraph", "degrees", "bfs">>

(***************************************************************************)
(* C4: at every point the log holds one record per benchmark executed so   *)
(* far, the loader, then the builder, then the resolved algorithms in      *)
(* order; when the loop has ended its length is 2 + the number of resolved *)
(* algorithms, whether they succeeded or failed.                           *)
(***************************************************************************)
C4_OneRecordPerExecution ==
    LET planned == <<"loadDataFile", "createGraph">> \o algosToRun
        executed == CASE pc \in {"resolve", "load"} -> 0
                      [] pc = "build" -> 1
                      [] pc = "check" -> 2
                      [] pc = "loop" -> algoIdx + 1
                      [] pc = "fatal" /\ fatal = "ValueError: bad algo(s)" -> 0
                      [] pc = "fatal" /\ fatal = "RuntimeError: could not create graph!" -> 2
                      [] OTHER -> 2 + Len(algosToRun)
    IN /\ Len(perfData) = executed
       /\ LogNames(perfData) = SubSeq(planned, 1, executed)
       /\ LogNames(perfData) = InvokedNames
       /\ LoopFinished => Len(perfData) = 2 + Len(algosToRun)

\* A finished run of several algorithms of which one failed and one succeeded.
C4_Witness ==
    /\ pc = "done"
    /\ Len(algosToRun) >= 2
    /\ Len(perfData) = 2 + Len(algosToRun)
    /\ \E i, j \in 3..Len(perfData) :
          IsInstanceStr(perfData[i][2]) /\ ~IsInstanceStr(perfData[j][2])

(***************************************************************************)
(* C5: when the graph handle is None after the build step (the build step  *)
(* having failed or not), the run ends at once in the fatal error: the     *)
(* real registry is never built, no algorithm benchmark is run, nothing is *)
(* exported and the log holds the loader and builder records only.         *)
(***************************************************************************)
C5_NullGraphAborts ==
    (Len(invoked) >= 2 /\ G = "None" /\ pc # "check") =>
        /\ pc = "fatal"
        /\ fatal = "RuntimeError: could not create graph!"
        /\ benches = << >>
        /\ Len(invoked) = 2
        /\ asvCalls = << >>
        /\ LogNames(perfData) = <<"loadDataFile", "createGraph">>

\* The load succeeded, the build failed and the run was aborted.
C5_Witness ==
    /\ pc = "fatal"
    /\ edgelist_gdf = "gdf"
    /\ G = "None"
    /\ Len(perfData) = 2
    /\ IsInstanceStr(perfData[2][2])

(***************************************************************************)
(* C6: when the extension of the dataset path is neither mtx nor csv, the  *)
(* run ends in the fatal bad-file-type error once the loader has rejected  *)
(* it: the graph-build step and the algorithm benchmarks are not           *)
(* attempted.                                                              *)
(***************************************************************************)
C6_BadFileTypeIsFatal ==
    (FileType(args_file) \notin {"mtx", "csv"} /\ loaderCalls >= 1) =>
        /\ pc = "fatal"
        /\ fatal = "ValueError: bad file type"
        /\ \A i \in 1..Len(invoked) : invoked[i].name = "loadDataFile"

(***************************************************************************)
(* C7 as stated: in every run with --update_asv_dir configured whose       *)
(* requested benchmarks have all finished, the log has been handed to the  *)
(* report sink exactly once when the run ends, whatever other reporting    *)
(* flags were given.                                                       *)
(***************************************************************************)
C7_ExportedWhateverFlags ==
    (pc \in {"done", "fatal"} /\ LoopFinished /\ Truthy(args_update_asv_dir))
        => Len(asvCalls) = 1

(***************************************************************************)
(* C7 amended: the same when --update_results_dir is absent or empty: the  *)
(* sink is called at most once, only with --update_asv_dir non-empty and   *)
(* only after the record of the last requested benchmark was appended,     *)
(* with the conversion of the full log; such a run ends with the sink      *)
(* called exactly once. With --update_results_dir non-empty the run ends   *)
(* in NotImplementedError and the sink is never called.                    *)
(***************************************************************************)
C7_ExportedUnlessResultsDir ==
    /\ Len(asvCalls) <= 1
    /\ asvCalls # << >> =>
          /\ Truthy(args_update_asv_dir)
          /\ ~Truthy(args_update_results_dir)
          /\ pc = "done"
          /\ Len(perfData) = 2 + Len(algosToRun)
          /\ LogNames(asvCalls[1]) = LogNames(perfData)
          /\ perfData[Len(perfData)][1] = algosToRun[Len(algosToRun)]
    /\ (pc \in {"done", "fatal"} /\ LoopFinished
            /\ Truthy(args_update_asv_dir) /\ ~Truthy(args_update_results_dir))
          => pc = "done" /\ Len(asvCalls) = 1
    /\ (LoopFinished /\ Truthy(args_update_results_dir) /\ pc # "reports")
          => pc = "fatal" /\ asvCalls = << >>

\* A finished run that exported, --update_results_dir given as the empty string.
C7_Witness ==
    /\ pc = "done"
    /\ Len(asvCalls) = 1
    /\ args_update_results_dir.given
    /\ Len(asvCalls[1]) = 2 + Len(algosToRun)

(***************************************************************************)
(* C8: the payload handed to the sink has the length and the names, in     *)
(* order, of the log (loader and builder records included); a record whose *)
(* value is an error string maps to None, a record whose value is an       *)
(* elapsed time maps to that time; and the step that converts leaves the   *)
(* log as it was.                                                          *)
(***************************************************************************)
C8_PayloadOfLog ==
    \A c \in 1..Len(asvCalls) :
        LET payload == asvCalls[c]
        IN /\ Len(payload) = Len(perfData)
           /\ Len(payload) >= 2
           /\ payload[1][1] = "loadDataFile"
           /\ payload[2][1] = "createGraph"
           /\ \A i \in 1..Len(perfData) :
                 /\ payload[i][1] = perfData[i][1]
                 /\ invoked[i].raised =>
                       IsInstanceStr(perfData[i][2]) /\ payload[i][2] = PyNone
                 /\ ~invoked[i].raised =>
                       /\ perfData[i][2].type = "float"
                       /\ payload[i][2] = perfData[i][2]

C8_PayloadIsPureFunctionOfLog ==
    /\ []C8_PayloadOfLog
    /\ [][pc = "asv" => perfData' = perfData]_vars

\* An export of a log that holds both an error string and an elapsed time.
C8_Witness ==
    /\ Len(asvCalls) = 1
    /\ \E i, j \in 3..Len(perfData) :
          /\ IsInstanceStr(perfData[i][2])
          /\ asvCalls[1][i][2] = PyNone
          /\ asvCalls[1][j][2].type = "float"
          /\ asvCalls[1][j][2].num = 2

(***************************************************************************)
(* C9: for every accepted --algo list (any length, any repetition of valid *)
(* names), in a run that passes graph construction each Benchmark of the   *)
(* registry is run at most once, and each Benchmark named in the request   *)
(* has been run exactly once when the loop has ended.                      *)
(***************************************************************************)
C9_EachBenchmarkRunOnce ==
    /\ \A a \in Range(BenchmarkList) : TimesRun(a) <= 1
    /\ LoopFinished =>
          \A a \in Range(args_algo) \cap Range(BenchmarkList) : TimesRun(a) = 1

(***************************************************************************)
(* C10 as stated: every name in the log is the name of exactly one         *)
(* Benchmark of the registry built by getBenchmarks, and the log is        *)
(* append-only.                                                            *)
(***************************************************************************)
NamesOfRegistry ==
    \A i \in 1..Len(perfData) :
        Cardinality({j \in 1..Len(BenchmarkList) :
                        BenchmarkList[j] = perfData[i][1]}) = 1

C10_LogNamesInRegistry ==
    /\ []NamesOfRegistry
    /\ [][IsPrefix(perfData, perfData')]_vars

(***************************************************************************)
(* C10 amended: the first two records of the log are those of the loader   *)
(* and of the builder, which are Benchmarks of no registry; every name in  *)
(* a later record is the name of exactly one Benchmark of the registry     *)
(* built by getBenchmarks; and the log is append-only: each step leaves    *)
(* the earlier log as a prefix of the later one.                           *)
(***************************************************************************)
NamesOfRegistryAfterLoadAndBuild ==
    \A i \in 1..Len(perfData) :
        CASE i = 1 -> perfData[i][1] = "loadDataFile"
          [] i = 2 -> perfData[i][1] = "createGraph"
          [] OTHER -> /\ benches # << >>
                      /\ Cardinality({j \in 1..Len(BenchmarkList) :
                            BenchmarkList[j] = perfData[i][1]}) = 1
                      /\ Cardinality({j \in 1..Len(benches) :
                            benches[j] = perfData[i][1]}) = 1

C10_LogNamesAndAppendOnly ==
    /\ []NamesOfRegistryAfterLoadAndBuild
    /\ [][IsPrefix(perfData, perfData')]_vars

\* A finished run whose log holds the loader, the builder and two algorithms.
C10_Witness ==
    /\ pc = "done"
    /\ Len(perfData) >= 4
    /\ perfData[1][1] = "loadDataFile"
    /\ perfData[4][1] \in Range(benches)

====
